---- MODULE Spec2Model ----
(***************************************************************************)
(* A model of src/src/colorful-renderer.ts (class ColorfulRenderer):       *)
(*   - the size estimator: getIndiDetails, getFamDetails,                  *)
(*     getPreferredIndiSize, getPreferredFamSize;                          *)
(*   - the offset calculator inside render (the per-person records) and    *)
(*     getFamTransform;                                                    *)
(*   - the keyed enter/update reconciliation of render, renderIndi and     *)
(*     renderFamily over a tree of visual elements, with the optional      *)
(*     transitions of transition().                                        *)
(*                                                                         *)
(* Optional values (T | undefined) are sequences of length at most one:    *)
(* <<>> is "absent", <<v>> is "present with value v".  Numbers that may be *)
(* NaN/undefined in JavaScript are modelled the same way (<<>> is NaN).    *)
(***************************************************************************)
EXTENDS Integers, Sequences, FiniteSets, TLC

VARIABLES
  options,       \* RendererOptions: horizontal, animate, href functions, callbacks
  charWidth,     \* the text measurement behind getLength, per style class
  pc,            \* where the caller of the renderer is
  indi,          \* IndiDetails handed to the size estimator
  fam,           \* FamDetails handed to the size estimator
  details,       \* the DetailsLine[] last returned by get*Details
  size,          \* the [width, height] last returned by getPreferred*Size
  node,          \* the TreeNode handed to the offset calculator
  offsetIndis,   \* the OffsetIndi[] computed for node
  famTransform,  \* the translate() computed by getFamTransform for node
  dom,           \* the visual elements under each rendered tree node
  input,         \* the TreeNode data bound to each tree node by the latest pass
  pass,          \* the enter and update selections of the latest render call
  scheduled,     \* the d3 transitions scheduled and not yet ended
  passes         \* the number of render passes made

vars == <<options, charWidth, pc, indi, fam, details, size, node, offsetIndis,
          famTransform, dom, input, pass, scheduled, passes>>

configVars == <<options, charWidth>>
offsetVars == <<node, offsetIndis, famTransform>>
renderVars == <<dom, input, pass, scheduled, passes>>

None == <<>>
Some(v) == <<v>>
Max(a, b) == IF a >= b THEN a ELSE b

(***************************************************************************)
(* Program constants.                                                      *)
(***************************************************************************)
INDI_MIN_HEIGHT == 43
INDI_MIN_WIDTH == 64
FAM_MIN_HEIGHT == 10
FAM_MIN_WIDTH == 15
IMAGE_WIDTH == 70
IMAGE_HEIGHT == 90
ANIMATION_DELAY_MS == 200
ANIMATION_DURATION_MS == 500

(***************************************************************************)
(* JavaScript and d3 primitives used by the code.                          *)
(***************************************************************************)
\* Truthiness of an optional string: undefined and '' are falsy.
Truthy(s) == s # None /\ s[1] # ""

\* s || '' for an optional string.
OrEmpty(s) == IF Truthy(s) THEN s[1] ELSE ""

\* a + n where a may be undefined/NaN: the sum is then NaN.
Plus(a, n) == IF a = None THEN None ELSE Some(a[1] + n)

\* d3.max(array): the largest of the values that are numbers; undefined and
\* NaN entries are skipped, and the result is undefined when none is left.
d3max(values) ==
  LET nums == {values[i][1] : i \in {j \in 1..Len(values) : values[j] # None}}
  IN  IF nums = {} THEN None
      ELSE Some(CHOOSE m \in nums : \A n \in nums : n <= m)

\* getLength(text, textClass): the measured width of text in a style class.
getLength(text, textClass) == charWidth[textClass] * Len(text)

\* formatDate(date, locale): a non-empty rendering of an exact date.
formatDate(date) == ToString(date.year)

(***************************************************************************)
(* getIndiDetails                                                          *)
(***************************************************************************)
\* birthDate && (birthDate.date || birthDate.dateRange)
isValidDate(d) == d # None /\ (d[1].date # None \/ d[1].dateRange # None)

\* A mutant of lifespanText: a birth range is read at its "to" end.
lifespanText_birthTo(birthDate, deathDate) ==
  LET left == IF isValidDate(birthDate)
                THEN IF birthDate[1].date # None
                       THEN ToString(birthDate[1].date[1].year)
                       ELSE ToString(birthDate[1].dateRange[1].to.year)
                ELSE "?"
      right == IF isValidDate(deathDate)
                 THEN IF deathDate[1].date # None
                        THEN ToString(deathDate[1].date[1].year)
                        ELSE ToString(deathDate[1].dateRange[1].to.year)
                 ELSE ""
  IN  left \o " - " \o right

\* The lifespan string built when one of the two dates is valid.
lifespanText(birthDate, deathDate) ==
  LET left == IF isValidDate(birthDate)
                THEN IF birthDate[1].date # None
                       THEN ToString(birthDate[1].date[1].year)
                       ELSE ToString(birthDate[1].dateRange[1].from.year)
                ELSE "?"
      right == IF isValidDate(deathDate)
                 THEN IF deathDate[1].date # None
                        THEN ToString(deathDate[1].date[1].year)
                        ELSE ToString(deathDate[1].dateRange[1].to.year)
                 ELSE ""
  IN  left \o " - " \o right

\* A mutant of placeLines: the two places are pushed independently.
placeLines_both(i) ==
  (IF Truthy(i.birthPlace)
     THEN <<[symbol |-> "", centered |-> TRUE, text |-> i.birthPlace[1]]>>
     ELSE <<>>)
  \o
  (IF Truthy(i.deathPlace)
     THEN <<[symbol |-> "", centered |-> TRUE, text |-> i.deathPlace[1]]>>
     ELSE <<>>)

\* The place line: the birth place, else the death place.
placeLines(i) ==
  IF Truthy(i.birthPlace)
    THEN <<[symbol |-> "", centered |-> TRUE, text |-> i.birthPlace[1]]>>
    ELSE IF Truthy(i.deathPlace)
      THEN <<[symbol |-> "", centered |-> TRUE, text |-> i.deathPlace[1]]>>
      ELSE <<>>

getIndiDetails(i) ==
  (IF isValidDate(i.birthDate) \/ isValidDate(i.deathDate)
     THEN <<[symbol |-> "", centered |-> TRUE,
             text |-> lifespanText(i.birthDate, i.deathDate)]>>
     ELSE <<>>)
  \o placeLines(i)

(***************************************************************************)
(* getFamDetails                                                           *)
(***************************************************************************)
\* getMarriageDate() && getMarriageDate().date && formatDate(...): the text of
\* the exact marriage date, absent when there is no exact date.
marriageDateText(f) ==
  IF f.marriageDate # None /\ f.marriageDate[1].date # None
    THEN Some(formatDate(f.marriageDate[1].date[1]))
    ELSE None

\* The marriage symbol, U+26AD.
UNION_SYMBOL == "U+26AD"

\* detailsList[0].symbol = UNION_SYMBOL
withUnionSymbol(list) == [list EXCEPT ![1].symbol = UNION_SYMBOL]

getFamDetails(f) ==
  LET marriageDate == marriageDateText(f)
      marriagePlace == f.marriagePlace
      list == (IF Truthy(marriageDate)
                 THEN <<[symbol |-> "", centered |-> FALSE, text |-> marriageDate[1]]>>
                 ELSE <<>>)
              \o
              (IF Truthy(marriagePlace)
                 THEN <<[symbol |-> "", centered |-> FALSE, text |-> marriagePlace[1]]>>
                 ELSE <<>>)
  IN  IF Truthy(marriageDate) \/ Truthy(marriagePlace)
        THEN withUnionSymbol(list)
        ELSE list

(***************************************************************************)
(* getPreferredIndiSize, getPreferredFamSize                               *)
(***************************************************************************)
\* details.map(x => getLength(x.text, 'details'))
detailWidths(list) == [k \in 1..Len(list) |-> Some(getLength(list[k].text, "details"))]

\* A mutant of indiWidth: the names are padded like the details lines.
indiWidth_samePadding(i, list) ==
  LET maxDetailsWidth == d3max(detailWidths(list))
  IN  Plus(d3max(<<Plus(maxDetailsWidth, 22),
                   Some(getLength(OrEmpty(i.firstName), "name") + 22),
                   Some(getLength(OrEmpty(i.lastName), "name") + 22),
                   Some(INDI_MIN_WIDTH)>>),
           IF Truthy(i.imageUrl) THEN IMAGE_WIDTH ELSE 0)

indiWidth(i, list) ==
  LET maxDetailsWidth == d3max(detailWidths(list))
  IN  Plus(d3max(<<Plus(maxDetailsWidth, 22),
                   Some(getLength(OrEmpty(i.firstName), "name") + 8),
                   Some(getLength(OrEmpty(i.lastName), "name") + 8),
                   Some(INDI_MIN_WIDTH)>>),
           IF Truthy(i.imageUrl) THEN IMAGE_WIDTH ELSE 0)

indiHeight(i, list) ==
  d3max(<<Some(INDI_MIN_HEIGHT + Len(list) * 14),
          Some(IF Truthy(i.imageUrl) THEN IMAGE_HEIGHT ELSE 0)>>)

getPreferredIndiSize(i) ==
  LET list == getIndiDetails(i)
  IN  <<indiWidth(i, list), indiHeight(i, list)>>

getPreferredFamSize(f) ==
  LET list == getFamDetails(f)
      height == d3max(<<Some(10 + Len(list) * 14), Some(FAM_MIN_HEIGHT)>>)
      maxDetailsWidth == d3max(detailWidths(list))
      width == d3max(<<Plus(maxDetailsWidth, 22), Some(FAM_MIN_WIDTH)>>)
  IN  <<width, height>>

(***************************************************************************)
(* The inputs of the size estimator.                                       *)
(***************************************************************************)
ExactDate(y) == [date |-> Some([year |-> y]), dateRange |-> None]
RangeDate(y1, y2) ==
  [date |-> None, dateRange |-> Some([from |-> [year |-> y1], to |-> [year |-> y2]])]
BothDate(y, y1, y2) ==
  [date |-> Some([year |-> y]),
   dateRange |-> Some([from |-> [year |-> y1], to |-> [year |-> y2]])]
\* An event that is recorded without a usable date.
EmptyDate == [date |-> None, dateRange |-> None]

BirthDates ==
  {None, Some(EmptyDate), Some(ExactDate(1900)), Some(RangeDate(1890, 1910)),
   Some(BothDate(1900, 1890, 1910))}
DeathDates ==
  {None, Some(EmptyDate), Some(ExactDate(1950)), Some(RangeDate(1940, 1960)),
   Some(BothDate(1950, 1940, 1960))}
MarriageDates ==
  {None, Some(EmptyDate), Some(ExactDate(1925)), Some(RangeDate(1920, 1930)),
   Some(BothDate(1925, 1920, 1930))}

Individuals ==
  [id : {"I1"},
   firstName : {None, Some("Maximilian")},
   lastName : {None, Some("Ng"), Some("Featherstone")},
   sex : {Some("F")},
   birthDate : BirthDates,
   deathDate : DeathDates,
   birthPlace : {None, Some(""), Some("Constantinople")},
   deathPlace : {None, Some(""), Some("Rome")},
   imageUrl : {None, Some("portrait.png")}]

Families ==
  [id : {"F1"},
   marriageDate : MarriageDates,
   marriagePlace : {None, Some(""), Some("Rome"), Some("Constantinople")}]

OptionSets ==
  [horizontal : BOOLEAN, animate : BOOLEAN,
   indiHrefFunc : BOOLEAN, indiCallback : BOOLEAN,
   famHrefFunc : BOOLEAN, famCallback : BOOLEAN]

PlainOptions(o) ==
  ~o.indiHrefFunc /\ ~o.indiCallback /\ ~o.famHrefFunc /\ ~o.famCallback

CharWidths == [name : {7, 8}, details : {5, 6}]

NoIndi ==
  [id |-> "I1", firstName |-> None, lastName |-> None, sex |-> None,
   birthDate |-> None, deathDate |-> None, birthPlace |-> None,
   deathPlace |-> None, imageUrl |-> None]
NoFam == [id |-> "F1", marriageDate |-> None, marriagePlace |-> None]

\* The variables of the offset calculator and of the renderer, at rest.
RendererIdle ==
  /\ node = None /\ offsetIndis = <<>> /\ famTransform = None
  /\ dom = <<>> /\ input = <<>> /\ scheduled = <<>> /\ passes = 0
  /\ pass = [enter |-> {}, update |-> {}, repeat |-> FALSE]

(***************************************************************************)
(* The size estimator called on an individual.                             *)
(***************************************************************************)
InitIndi ==
  /\ options \in {o \in OptionSets : PlainOptions(o)}
  /\ charWidth \in CharWidths
  /\ pc = "start"
  /\ indi \in Individuals
  /\ fam = NoFam
  /\ details = <<>>
  /\ size = None
  /\ RendererIdle

CallGetIndiDetails ==
  /\ pc = "start"
  /\ details' = getIndiDetails(indi)
  /\ pc' = "details"
  /\ UNCHANGED <<configVars, indi, fam, size, offsetVars, renderVars>>

CallGetPreferredIndiSize ==
  /\ pc = "details"
  /\ size' = Some(getPreferredIndiSize(indi))
  /\ pc' = "sized"
  /\ UNCHANGED <<configVars, indi, fam, details, offsetVars, renderVars>>

NextIndi == CallGetIndiDetails \/ CallGetPreferredIndiSize

SpecIndi == InitIndi /\ [][NextIndi]_vars

(***************************************************************************)
(* The size estimator called on a family.                                  *)
(***************************************************************************)
InitFam ==
  /\ options \in {o \in OptionSets : PlainOptions(o)}
  /\ charWidth \in CharWidths
  /\ pc = "start"
  /\ indi = NoIndi
  /\ fam \in Families
  /\ details = <<>>
  /\ size = None
  /\ RendererIdle

CallGetFamDetails ==
  /\ pc = "start"
  /\ details' = getFamDetails(fam)
  /\ pc' = "details"
  /\ UNCHANGED <<configVars, indi, fam, size, offsetVars, renderVars>>

CallGetPreferredFamSize ==
  /\ pc = "details"
  /\ size' = Some(getPreferredFamSize(fam))
  /\ pc' = "sized"
  /\ UNCHANGED <<configVars, indi, fam, details, offsetVars, renderVars>>

NextFam == CallGetFamDetails \/ CallGetPreferredFamSize

SpecFam == InitFam /\ [][NextFam]_vars

(***************************************************************************)
(* Properties of the size estimator.                                       *)
(***************************************************************************)
\* A date is valid when it has an exact date or a range.
Valid(d) == d # None /\ (d[1].date # None \/ d[1].dateRange # None)
HasLifespan(i) == Valid(i.birthDate) \/ Valid(i.deathDate)

\* The left and right parts of the lifespan line, as the specification words them.
LeftPart(i) ==
  IF ~Valid(i.birthDate) THEN "?"
  ELSE IF i.birthDate[1].date # None THEN ToString(i.birthDate[1].date[1].year)
  ELSE ToString(i.birthDate[1].dateRange[1].from.year)
RightPart(i) ==
  IF ~Valid(i.deathDate) THEN ""
  ELSE IF i.deathDate[1].date # None THEN ToString(i.deathDate[1].date[1].year)
  ELSE ToString(i.deathDate[1].dateRange[1].to.year)

PlaceTexts(i) == {OrEmpty(i.birthPlace), OrEmpty(i.deathPlace)} \ {""}

\* The lifespan line is emitted iff a date is valid, and reads "<left> - <right>".
LifespanRule ==
  IF HasLifespan(indi)
    THEN /\ details # <<>>
         /\ details[1].text = LeftPart(indi) \o " - " \o RightPart(indi)
         /\ \A k \in 2..Len(details) : details[k].text \in PlaceTexts(indi)
    ELSE \A k \in 1..Len(details) : details[k].text \in PlaceTexts(indi)

OnlyBirth1900 ==
  /\ indi.birthDate # None /\ indi.birthDate[1].date = Some([year |-> 1900])
  /\ ~Valid(indi.deathDate)
Death1950 == indi.deathDate # None /\ indi.deathDate[1].date = Some([year |-> 1950])
NoPlaces == ~Truthy(indi.birthPlace) /\ ~Truthy(indi.deathPlace)
Centered(text) == [symbol |-> "", centered |-> TRUE, text |-> text]

\* C1 (as stated): the lifespan line is emitted iff the birth or the death date
\* is valid and reads "<left> - <right>"; birth 1900 without death information
\* gives exactly the one line "1900 -", birth 1900 and death 1950 gives
\* "1900 - 1950", death 1950 alone gives "? - 1950".
C1_AsStated ==
  pc # "start" =>
    /\ LifespanRule
    /\ (OnlyBirth1900 /\ NoPlaces) => details = <<Centered("1900 -")>>
    /\ (indi.birthDate # None /\ indi.birthDate[1].date = Some([year |-> 1900])
        /\ Death1950) => details[1].text = "1900 - 1950"
    /\ (~Valid(indi.birthDate) /\ Death1950) => details[1].text = "? - 1950"

\* C1 (amended): the same, except that the separator " - " is always written
\* in full, so that birth 1900 without death information gives exactly the
\* one line "1900 - ", ending in a blank.
C1_Lifespan ==
  pc # "start" =>
    /\ LifespanRule
    /\ (OnlyBirth1900 /\ NoPlaces) => details = <<Centered("1900 - ")>>
    /\ (indi.birthDate # None /\ indi.birthDate[1].date = Some([year |-> 1900])
        /\ Death1950) => details[1].text = "1900 - 1950"
    /\ (~Valid(indi.birthDate) /\ Death1950) => details[1].text = "? - 1950"

C1_Witness ==
  /\ pc = "details" /\ OnlyBirth1900 /\ NoPlaces
  /\ Len(details) = 1 /\ details[1].text = "1900 - "

\* The lines of details that follow the lifespan line.
AfterLifespan == SubSeq(details, (IF HasLifespan(indi) THEN 2 ELSE 1), Len(details))

\* C2: at most one place line follows the lifespan line: the birth place when
\* there is one, else the death place when there is one, else none; the two
\* places never both appear.
C2_PlaceLine ==
  pc # "start" =>
    /\ Len(AfterLifespan) <= 1
    /\ Truthy(indi.birthPlace) => AfterLifespan = <<Centered(indi.birthPlace[1])>>
    /\ (~Truthy(indi.birthPlace) /\ Truthy(indi.deathPlace))
         => AfterLifespan = <<Centered(indi.deathPlace[1])>>
    /\ (~Truthy(indi.birthPlace) /\ ~Truthy(indi.deathPlace)) => AfterLifespan = <<>>
    /\ ~(\E j, k \in 1..Len(details) :
           /\ Truthy(indi.birthPlace) /\ Truthy(indi.deathPlace)
           /\ details[j].text = indi.birthPlace[1]
           /\ details[k].text = indi.deathPlace[1])

C2_Witness ==
  /\ pc = "details"
  /\ Truthy(indi.birthPlace) /\ Truthy(indi.deathPlace) /\ HasLifespan(indi)
  /\ Len(details) = 2 /\ details[2].text = indi.birthPlace[1]

\* The widest details line, when there is a line.
WidestLine == 
  CHOOSE w \in {getLength(details[k].text, "details") : k \in 1..Len(details)} :
    \A k \in 1..Len(details) : getLength(details[k].text, "details") <= w

HasImage == Truthy(indi.imageUrl)
FirstNameWidth == getLength(OrEmpty(indi.firstName), "name")
LastNameWidth == getLength(OrEmpty(indi.lastName), "name")

\* The padding of a details line, in getPreferredIndiSize as in
\* getPreferredFamSize.
PADDING == 22

\* The size of an individual's box with the details lines padded by pd and
\* the names by pn.
IndiSizeWith(pd, pn) ==
  LET textWidth ==
        Max(Max(FirstNameWidth + pn, LastNameWidth + pn),
            IF details = <<>> THEN INDI_MIN_WIDTH
                              ELSE Max(WidestLine + pd, INDI_MIN_WIDTH))
  IN  <<Some(textWidth + (IF HasImage THEN IMAGE_WIDTH ELSE 0)),
        Some(Max(INDI_MIN_HEIGHT + Len(details) * 14,
                 IF HasImage THEN IMAGE_HEIGHT ELSE 0))>>

\* C3 (as stated): the preferred size of an individual is as specified, with
\* one and the same PADDING in the details term and in the two name terms.
C3_AsStated == pc = "sized" => size = Some(IndiSizeWith(PADDING, PADDING))

\* C3 (amended): the details term is padded by 22 and the two name terms by 8;
\* width and height are numbers (also without details lines), not negative,
\* and a function of the individual's content and the text measurement alone.
C3_PreferredIndiSize ==
  pc = "sized" =>
    /\ size = Some(IndiSizeWith(PADDING, 8))
    /\ size[1][1] # None /\ size[1][1][1] >= 0
    /\ size[1][2] # None /\ size[1][2][1] >= 0

C3_Witness ==
  /\ pc = "sized" /\ HasImage /\ Len(details) = 2
  /\ FirstNameWidth + 8 > WidestLine + 22
  /\ size[1][1] = Some(FirstNameWidth + 8 + IMAGE_WIDTH)

\* A marriage date is set when it has an exact date or a range.
MarriageSet == Valid(fam.marriageDate) \/ Truthy(fam.marriagePlace)

WidestFamLine ==
  CHOOSE w \in {getLength(details[k].text, "details") : k \in 1..Len(details)} :
    \A k \in 1..Len(details) : getLength(details[k].text, "details") <= w

\* C4: a family with a marriage date (exact or range) or a marriage place has a
\* non-empty details list whose first line alone carries the union symbol; a
\* family with neither has no details and the minimum size; the size is
\* max(FAM_MIN_WIDTH, widest line + PADDING) by max(FAM_MIN_HEIGHT, 10 + 14 lines).
C4_FamDetails ==
  /\ pc # "start" =>
       IF MarriageSet
         THEN /\ details # <<>>
              /\ details[1].symbol = UNION_SYMBOL
              /\ \A k \in 2..Len(details) : details[k].symbol # UNION_SYMBOL
         ELSE details = <<>>
  /\ pc = "sized" =>
       /\ ~MarriageSet => size = Some(<<Some(FAM_MIN_WIDTH), Some(FAM_MIN_HEIGHT)>>)
       /\ size[1][2] = Some(Max(FAM_MIN_HEIGHT, 10 + Len(details) * 14))
       /\ size[1][1] = Some(IF details = <<>> THEN FAM_MIN_WIDTH
                            ELSE Max(FAM_MIN_WIDTH, WidestFamLine + PADDING))

(***************************************************************************)
(* The offset calculator: the data callback of render's person join, and   *)
(* getFamTransform.                                                        *)
(***************************************************************************)
\* getFamPositionVertical(node), getFamPositionHorizontal(node): the raw
\* position of the family box for the orientation, a datum of the layout.
getFamPositionVertical(n) == n.famPositionVertical
getFamPositionHorizontal(n) == n.famPositionHorizontal

famXOffset(n) ==
  IF ~options.horizontal /\ n.family # None
    THEN d3max(<<Some(-getFamPositionVertical(n)), Some(0)>>)[1]
    ELSE 0

famYOffset(n) ==
  IF options.horizontal /\ n.family # None
    THEN d3max(<<Some(-getFamPositionHorizontal(n)), Some(0)>>)[1]
    ELSE 0

\* The record pushed for node.data.spouse.
spouseRecord(n) ==
  [indi |-> n.spouse[1],
   generation |-> n.generation,
   xOffset |-> IF ~options.horizontal /\ n.indi # None
                 THEN n.indi[1].width + famXOffset(n) ELSE 0,
   yOffset |-> IF options.horizontal /\ n.indi # None
                 THEN n.indi[1].height + famYOffset(n) ELSE 0]

\* The record pushed for node.data.indi.
indiRecord(n) ==
  [indi |-> n.indi[1],
   generation |-> n.generation,
   xOffset |-> famXOffset(n),
   yOffset |-> 0]

\* node => OffsetIndi[]: the records the person join binds for a node.
offsetIndiData(n) ==
  (IF n.indi # None THEN <<indiRecord(n)>> ELSE <<>>)
  \o (IF n.spouse # None THEN <<spouseRecord(n)>> ELSE <<>>)

\* (node.indi && node.indi.width) || node.spouse!.width, and the same for
\* height: a size of 0 is falsy.
anchorSize(n, dim) ==
  IF n.indi # None /\ n.indi[1][dim] # 0 THEN n.indi[1][dim] ELSE n.spouse[1][dim]

\* A mutant of getFamTransform: the spouse takes precedence as the anchor.
getFamTransform_spouseFirst(n) ==
  LET anchor(dim) == IF n.spouse # None THEN n.spouse[1][dim] ELSE n.indi[1][dim]
  IN  IF options.horizontal
        THEN <<anchor("width"), d3max(<<Some(getFamPositionHorizontal(n)), Some(0)>>)[1]>>
        ELSE <<d3max(<<Some(getFamPositionVertical(n)), Some(0)>>)[1], anchor("height")>>

\* The (x, y) of the translate() that places the family group.
getFamTransform(n) ==
  IF options.horizontal
    THEN <<anchorSize(n, "width"),
           d3max(<<Some(getFamPositionHorizontal(n)), Some(0)>>)[1]>>
    ELSE <<d3max(<<Some(getFamPositionVertical(n)), Some(0)>>)[1],
           anchorSize(n, "height")>>

(***************************************************************************)
(* The layout nodes handed to the offset calculator.  Sizes are those the  *)
(* size estimator can return (positive); a node with a family holds at     *)
(* least one person, as getFamTransform's node.spouse! asserts; the two    *)
(* people of a node are different individuals.                             *)
(***************************************************************************)
IndiWidths == {INDI_MIN_WIDTH, 100}
IndiHeights == {INDI_MIN_HEIGHT, 57}
FamWidths == {FAM_MIN_WIDTH, 130}
FamHeights == {FAM_MIN_HEIGHT, 24}
FamPositions == {-30, 0, 20}

Entries(ids, widths, heights) == [id : ids, width : widths, height : heights]
Optional(S) == {None} \cup {Some(x) : x \in S}

WellFormed(n) == n.family # None => (n.indi # None \/ n.spouse # None)

OffsetNodes ==
  {n \in [indi : Optional(Entries({"I1"}, IndiWidths, IndiHeights)),
          spouse : Optional(Entries({"I2"}, IndiWidths, IndiHeights)),
          family : Optional(Entries({"F1"}, FamWidths, FamHeights)),
          generation : {0},
          famPositionVertical : FamPositions,
          famPositionHorizontal : FamPositions] :
     /\ WellFormed(n)
     /\ n.family = None => (n.famPositionVertical = 0 /\ n.famPositionHorizontal = 0)}

InitOffset ==
  /\ options \in {o \in OptionSets : PlainOptions(o) /\ ~o.animate}
  /\ charWidth \in {c \in CharWidths : c.name = 7 /\ c.details = 6}
  /\ pc = "start"
  /\ indi = NoIndi /\ fam = NoFam /\ details = <<>> /\ size = None
  /\ node \in {Some(n) : n \in OffsetNodes}
  /\ offsetIndis = <<>> /\ famTransform = None
  /\ dom = <<>> /\ input = <<>> /\ scheduled = <<>> /\ passes = 0
  /\ pass = [enter |-> {}, update |-> {}, repeat |-> FALSE]

\* The person join evaluates its data callback on the node.
BindPersons ==
  /\ pc = "start"
  /\ offsetIndis' = offsetIndiData(node[1])
  /\ pc' = "bound"
  /\ UNCHANGED <<configVars, indi, fam, details, size, node, famTransform,
                 renderVars>>

\* The family group of a node with a family is placed.
PlaceFamily ==
  /\ pc = "bound"
  /\ node[1].family # None
  /\ famTransform' = Some(getFamTransform(node[1]))
  /\ pc' = "placed"
  /\ UNCHANGED <<configVars, indi, fam, details, size, node, offsetIndis,
                 renderVars>>

NextOffset == BindPersons \/ PlaceFamily

SpecOffset == InitOffset /\ [][NextOffset]_vars

(***************************************************************************)
(* Properties of the offset calculator.                                    *)
(***************************************************************************)
\* The node's raw family position for the orientation, 0 without a family.
FamilyOffset ==
  IF node[1].family = None THEN 0
  ELSE IF options.horizontal THEN node[1].famPositionHorizontal
  ELSE node[1].famPositionVertical

RecordOf(id) ==
  CHOOSE r \in {offsetIndis[k] : k \in 1..Len(offsetIndis)} : r.indi.id = id

\* C5: the primary individual is offset by max(0, -familyOffset) along x in
\* vertical mode and along y in horizontal mode; the spouse, when there is a
\* primary individual, is offset further along the same axis by the primary
\* individual's width (vertical) or height (horizontal); every other
\* coordinate is 0.
C5_Offsets ==
  pc # "start" =>
    LET n == node[1]
        shift == Max(0, -FamilyOffset)
    IN  /\ Len(offsetIndis) = (IF n.indi # None THEN 1 ELSE 0)
                              + (IF n.spouse # None THEN 1 ELSE 0)
        /\ n.indi # None =>
             /\ offsetIndis[1].indi = n.indi[1]
             /\ <<offsetIndis[1].xOffset, offsetIndis[1].yOffset>> =
                  (IF options.horizontal THEN <<0, shift>> ELSE <<shift, 0>>)
        /\ (n.indi # None /\ n.spouse # None) =>
             /\ offsetIndis[2].indi = n.spouse[1]
             /\ <<offsetIndis[2].xOffset, offsetIndis[2].yOffset>> =
                  (IF options.horizontal
                     THEN <<0, shift + n.indi[1].height>>
                     ELSE <<shift + n.indi[1].width, 0>>)
        /\ \A k \in 1..Len(offsetIndis) :
             IF options.horizontal THEN offsetIndis[k].xOffset = 0
                                   ELSE offsetIndis[k].yOffset = 0

\* The rectangles render places for the node.
PersonBox(r) ==
  [x |-> r.xOffset, y |-> r.yOffset, w |-> r.indi.width, h |-> r.indi.height]
FamilyBox ==
  [x |-> famTransform[1][1], y |-> famTransform[1][2],
   w |-> node[1].family[1].width, h |-> node[1].family[1].height]
\* Two rectangles share interior area.
Overlap(a, b) ==
  /\ a.x < b.x + b.w /\ b.x < a.x + a.w
  /\ a.y < b.y + b.h /\ b.y < a.y + a.h

PersonsDisjoint ==
  \A j, k \in 1..Len(offsetIndis) :
    j # k => ~Overlap(PersonBox(offsetIndis[j]), PersonBox(offsetIndis[k]))

\* C6 (as stated): whatever the sizes and the raw family offset, no two of
\* the individual's, the spouse's and the family's rectangles overlap.
C6_AsStated ==
  pc = "placed" =>
    /\ PersonsDisjoint
    /\ \A k \in 1..Len(offsetIndis) : ~Overlap(PersonBox(offsetIndis[k]), FamilyBox)

\* The extent of an entry along the axis on which the family box is anchored.
AnchorExtent(e) == IF options.horizontal THEN e.width ELSE e.height

\* C6 (amended): for positive sizes the individual's and the spouse's
\* rectangles never overlap, and the family's rectangle never overlaps that
\* of the entry it is anchored to (the individual, else the spouse); it stays
\* clear of the spouse of a node with an individual when the spouse is no
\* taller (vertical mode) or no wider (horizontal mode) than the individual.
C6_NoOverlap ==
  /\ pc # "start" => PersonsDisjoint
  /\ pc = "placed" =>
       LET n == node[1]
       IN  /\ n.indi # None => ~Overlap(PersonBox(RecordOf(n.indi[1].id)), FamilyBox)
           /\ (n.spouse # None
               /\ (n.indi = None
                   \/ AnchorExtent(n.spouse[1]) <= AnchorExtent(n.indi[1])))
                => ~Overlap(PersonBox(RecordOf(n.spouse[1].id)), FamilyBox)

C6_Witness ==
  /\ pc = "placed" /\ node[1].indi # None /\ node[1].spouse # None
  /\ FamilyOffset < 0
  /\ AnchorExtent(node[1].spouse[1]) < AnchorExtent(node[1].indi[1])
  /\ FamilyBox.w > node[1].indi[1].width + node[1].spouse[1].width

(***************************************************************************)
(* The visual elements.  An element is a record of the attributes the code *)
(* sets on it; a group (g.indi, g.family) holds its transform, the         *)
(* hyperlink that wraps its content, whether a click listener is attached, *)
(* and its child elements in document order.                               *)
(***************************************************************************)
Elem(cls) ==
  [cls |-> cls, text |-> "", href |-> "", style |-> "",
   x |-> None, y |-> None, w |-> None, h |-> None]

\* options.data.getIndi(id), options.data.getFam(id): the data provider.
getIndi(id) ==
  IF id = "I1"
    THEN [id |-> "I1", firstName |-> Some("Ada"), lastName |-> Some("Ng"),
          sex |-> Some("F"), birthDate |-> Some(ExactDate(1900)),
          deathDate |-> None, birthPlace |-> Some("Rome"), deathPlace |-> None,
          imageUrl |-> Some("ada.png")]
    ELSE [id |-> id, firstName |-> Some("Bo"), lastName |-> None,
          sex |-> None, birthDate |-> None, deathDate |-> None,
          birthPlace |-> None, deathPlace |-> None, imageUrl |-> None]

getFam(id) ==
  IF id = "F1"
    THEN [id |-> "F1", marriageDate |-> Some(ExactDate(1925)),
          marriagePlace |-> Some("Rome")]
    ELSE [id |-> id, marriageDate |-> None, marriagePlace |-> None]

\* SEX_COLORS.get(sex)
SEX_COLORS(sex) ==
  IF sex = "F" THEN "#fcb7bd" ELSE IF sex = "M" THEN "#b1e2e2" ELSE "undefined"

\* data.indi.width - (getIndi(data).getImageUrl() ? IMAGE_WIDTH : 0)
getDetailsWidth(data) ==
  data.indi.width - (IF Truthy(getIndi(data.indi.id).imageUrl) THEN IMAGE_WIDTH ELSE 0)

getClipId(id) == "clip-" \o id

\* The text elements renderIndi appends for the details lines of an entering
\* person: every line of getIndiDetails is centered.
indiDetailTexts(data) ==
  LET list == getIndiDetails(getIndi(data.indi.id))
  IN  [i \in 1..Len(list) |->
        IF list[i].centered
          THEN [Elem("details") EXCEPT
                  !.text = list[i].text,
                  !.x = Some(getDetailsWidth(data) \div 2),
                  !.y = Some(49 + (i - 1) * 14)]
          ELSE [Elem("details") EXCEPT
                  !.text = list[i].symbol \o list[i].text,
                  !.x = Some(9),
                  !.y = Some(49 + (i - 1) * 14)]]

\* The content renderIndi appends to an entering person group.  The width
\* and height of the background and of the border are set through
\* transition(); those of the clip rectangle are set at once.
indiEnterChildren(data) ==
  LET d == getIndi(data.indi.id)
  IN  <<[Elem("background") EXCEPT
           !.style = "fill: " \o SEX_COLORS(OrEmpty(d.sex))],
        [Elem("clipPath") EXCEPT
           !.text = getClipId(data.indi.id),
           !.w = Some(data.indi.width), !.h = Some(data.indi.height)],
        [Elem("name") EXCEPT
           !.text = OrEmpty(d.firstName),
           !.x = Some(getDetailsWidth(data) \div 2), !.y = Some(17)],
        [Elem("name") EXCEPT
           !.text = OrEmpty(d.lastName),
           !.x = Some(getDetailsWidth(data) \div 2), !.y = Some(33)]>>
      \o indiDetailTexts(data)
      \o (IF Truthy(d.imageUrl)
            THEN <<[Elem("image") EXCEPT
                      !.href = d.imageUrl[1],
                      !.style = "url(#" \o getClipId(data.indi.id) \o ")",
                      !.w = Some(IMAGE_WIDTH), !.h = Some(data.indi.height),
                      !.x = Some(data.indi.width - IMAGE_WIDTH), !.y = Some(0)]>>
            ELSE <<>>)
      \o <<Elem("border")>>

\* The g.indi appended for a record of the enter selection.
indiEnterGroup(data) ==
  [key |-> data.indi.id,
   transform |-> None,
   href |-> IF options.indiHrefFunc THEN "indi/" \o data.indi.id ELSE "",
   click |-> options.indiCallback,
   children |-> indiEnterChildren(data)]

\* A mutant of indiUpdateGroup: the update redraws the content of the group
\* for the new size.
indiUpdateGroup_redraw(g, data) == [g EXCEPT !.children = indiEnterChildren(data)]

\* What renderIndi does at once to a group of the update selection: the clip
\* rectangle takes the new size; nothing is appended.
indiUpdateGroup(g, data) ==
  [g EXCEPT !.children =
     [c \in 1..Len(g.children) |->
        IF g.children[c].cls = "clipPath"
          THEN [g.children[c] EXCEPT
                  !.w = Some(data.indi.width), !.h = Some(data.indi.height)]
          ELSE g.children[c]]]

\* The symbol and text elements renderFamily appends for the details lines.
famDetailTexts(n) ==
  LET list == getFamDetails(getFam(n.family[1].id))
      line(i) == <<[Elem("details") EXCEPT
                      !.text = list[i].symbol, !.x = Some(9),
                      !.y = Some(16 + (i - 1) * 14)],
                   [Elem("details") EXCEPT
                      !.text = list[i].text, !.x = Some(15),
                      !.y = Some(16 + (i - 1) * 14)]>>
  IN  IF Len(list) = 0 THEN <<>>
      ELSE IF Len(list) = 1 THEN line(1)
      ELSE line(1) \o line(2)

\* The g.family appended for an entering node with a family, with the
\* content renderFamily draws in it.
famEnterGroup(n) ==
  [key |-> n.family[1].id,
   transform |-> None,
   href |-> IF options.famHrefFunc THEN "fam/" \o n.family[1].id ELSE "",
   click |-> options.famCallback,
   children |->
     <<[Elem("rect") EXCEPT
          !.w = Some(n.family[1].width), !.h = Some(n.family[1].height)]>>
     \o famDetailTexts(n)]

\* What renderFamily does to the family group of an updating node: its
\* update selection is not used.
famUpdateGroup(g, n) == g

(***************************************************************************)
(* render: the keyed person join and the family enter/update of one node.  *)
(***************************************************************************)
HasGroup(groups, id) == \E k \in 1..Len(groups) : groups[k].key = id

\* The records among recs that the join binds to no existing group.
enterRecords(groups, recs) ==
  LET one(r) == IF HasGroup(groups, r.indi.id) THEN <<>> ELSE <<r>>
  IN  IF Len(recs) = 0 THEN <<>>
      ELSE IF Len(recs) = 1 THEN one(recs[1])
      ELSE one(recs[1]) \o one(recs[2])

\* selectAll('g.indi').data(records, d => d.indi.id), then enter().append('g')
\* and renderIndi: a group whose key is among the records is updated, a
\* record without a group gets a new group, and the groups whose key is in no
\* record (the exit selection) are left as they are.
joinPersons(groups, recs) ==
  LET first(k) == \A j \in 1..(k - 1) : groups[j].key # groups[k].key
      bound(k) == {j \in 1..Len(recs) : recs[j].indi.id = groups[k].key}
      entering == enterRecords(groups, recs)
  IN  [k \in 1..Len(groups) |->
         IF first(k) /\ bound(k) # {}
           THEN indiUpdateGroup(groups[k], recs[CHOOSE j \in bound(k) : TRUE])
           ELSE groups[k]]
      \o [k \in 1..Len(entering) |-> indiEnterGroup(entering[k])]

\* familyEnter (an entering node with a family gets a g.family) and
\* familyUpdate (the g.family of an updating node with a family, if it has one).
joinFamily(groups, n, entering) ==
  IF n.family = None THEN groups
  ELSE IF entering THEN groups \o <<famEnterGroup(n)>>
  ELSE IF groups = <<>> THEN groups
  ELSE <<famUpdateGroup(groups[1], n)>> \o Tail(groups)

\* The elements under a tree node once render has appended and selected:
\* enter.append('g') for an entering node, update.select('g') otherwise.
reconcile(el, n) ==
  LET detailed == IF el = None THEN [persons |-> <<>>, families |-> <<>>] ELSE el[1]
  IN  [persons |-> joinPersons(detailed.persons, offsetIndiData(n)),
       families |-> joinFamily(detailed.families, n, el = None)]

\* The attributes render sets through transition(): the transform of every
\* bound person group, the width and height of its background and border,
\* and the transform of the family group.
Target(id, group, key, cls, value) ==
  [node |-> id, group |-> group, key |-> key, cls |-> cls, value |-> value]

targets(id, n, el) ==
  LET recs == offsetIndiData(n)
  IN  {Target(id, "indi", recs[k].indi.id, "", <<recs[k].xOffset, recs[k].yOffset>>) :
         k \in 1..Len(recs)}
      \cup
      {Target(id, "indi", recs[k].indi.id, cls,
              <<recs[k].indi.width, recs[k].indi.height>>) :
         k \in 1..Len(recs), cls \in {"background", "border"}}
      \cup
      (IF n.family # None /\ el.families # <<>>
         THEN {Target(id, "family", "", "", getFamTransform(n))}
         ELSE {})

\* A group with the attributes of ts set on it and on its children.
setAttrs(g, ts) ==
  [g EXCEPT
     !.transform = IF \E t \in ts : t.cls = ""
                     THEN Some((CHOOSE t \in ts : t.cls = "").value)
                     ELSE @,
     !.children =
       [c \in 1..Len(g.children) |->
          IF /\ \E t \in ts : t.cls = g.children[c].cls
             /\ \A b \in 1..(c - 1) : g.children[b].cls # g.children[c].cls
            THEN LET t == CHOOSE t \in ts : t.cls = g.children[c].cls
                 IN  [g.children[c] EXCEPT !.w = Some(t.value[1]), !.h = Some(t.value[2])]
            ELSE g.children[c]]]

\* The elements with the attributes of ts set.
applyTargets(d, ts) ==
  [id \in DOMAIN d |->
     IF d[id] = None THEN None
     ELSE Some(
       [persons |->
          [k \in 1..Len(d[id][1].persons) |->
             LET g == d[id][1].persons[k]
             IN  IF \A j \in 1..(k - 1) : d[id][1].persons[j].key # g.key
                   THEN setAttrs(g, {t \in ts : t.node = id /\ t.group = "indi"
                                                 /\ t.key = g.key})
                   ELSE g],
        families |->
          [k \in 1..Len(d[id][1].families) |->
             IF k = 1
               THEN setAttrs(d[id][1].families[k],
                             {t \in ts : t.node = id /\ t.group = "family"})
               ELSE d[id][1].families[k]]])]

\* A mutant of transition: the attributes are always set at once.
transition_immediate(d, sched, ts) ==
  [dom |-> applyTargets(d, ts), scheduled |-> sched]

\* transition(selection).attr(...): with animate the attributes are left to a
\* transition scheduled now, which starts after ANIMATION_DELAY_MS and ends
\* ANIMATION_DURATION_MS later; without, they are set at once.  The
\* transitions one pass creates share their timing and are kept together.
transition(d, sched, ts) ==
  IF options.animate
    THEN [dom |-> d,
          scheduled |-> Append(sched, [age |-> 0, started |-> FALSE, targets |-> ts])]
    ELSE [dom |-> applyTargets(d, ts), scheduled |-> sched]

\* render(enter, update) on the nodes of data, a function from the ids of the
\* nodes of the two selections to their TreeNode.
render(d, sched, data) ==
  LET d1 == [id \in DOMAIN d |->
               IF id \in DOMAIN data THEN Some(reconcile(d[id], data[id])) ELSE d[id]]
      ts == UNION {targets(id, data[id], d1[id][1]) : id \in DOMAIN data}
  IN  transition(d1, sched, ts)

(***************************************************************************)
(* Render passes over a diagram.                                           *)
(***************************************************************************)
\* The most render passes made on a diagram.
MaxPasses == 2
\* The most passes whose transitions are in flight together.
MaxScheduled == 2

NodeIds == {"n1", "n2"}

\* The tree nodes of a pass: I1 (with a portrait) in two sizes, I2, the
\* family F1 (sized with I1, before the origin) and the family F2 (after it).
RenderNodes ==
  {n \in [indi : Optional({[id |-> "I1", width |-> 134, height |-> 90],
                           [id |-> "I1", width |-> 170, height |-> 104]}),
          spouse : Optional({[id |-> "I2", width |-> 64, height |-> 43]}),
          family : Optional({[id |-> "F1", width |-> 100, height |-> 38],
                             [id |-> "F1", width |-> 130, height |-> 52],
                             [id |-> "F2", width |-> 15, height |-> 10]}),
          generation : {0},
          famPositionVertical : {-30, 20},
          famPositionHorizontal : {-30, 20}] :
     /\ WellFormed(n)
     /\ n.famPositionVertical = n.famPositionHorizontal
     /\ (n.famPositionVertical = -30) <=> (n.family # None /\ n.family[1].id = "F1")
     /\ (n.family # None /\ n.family[1].width = 130)
          <=> (n.family # None /\ n.family[1].id = "F1"
               /\ n.indi # None /\ n.indi[1].width = 170)}

\* The data a node can carry: every tree node for n1, a single individual
\* with or without a family for n2.
NodeData(id) ==
  IF id = "n1" THEN RenderNodes
  ELSE {n \in RenderNodes :
          /\ n.indi # None /\ n.indi[1].width = 134 /\ n.spouse = None
          /\ n.family \in {None, Some([id |-> "F2", width |-> 15, height |-> 10])}}

\* The data of a pass over n1, over n2, or over both.
PassesOver(D1, D2) ==
  {("n1" :> a) : a \in D1} \cup {("n2" :> b) : b \in D2}
  \cup {("n1" :> a) @@ ("n2" :> b) : a \in D1, b \in D2}

RenderPassData == PassesOver(NodeData("n1"), NodeData("n2"))

InitRender ==
  /\ options \in {o \in OptionSets :
                    /\ ~o.animate
                    /\ o.indiHrefFunc = o.famHrefFunc
                    /\ o.indiCallback = o.famCallback
                    /\ o.indiHrefFunc = o.indiCallback}
  /\ charWidth \in {c \in CharWidths : c.name = 7 /\ c.details = 6}
  /\ pc = "idle"
  /\ indi = NoIndi /\ fam = NoFam /\ details = <<>> /\ size = None
  /\ node = None /\ offsetIndis = <<>> /\ famTransform = None
  /\ dom = [id \in NodeIds |-> None]
  /\ input = [id \in NodeIds |-> None]
  /\ pass = [enter |-> {}, update |-> {}, repeat |-> FALSE]
  /\ scheduled = <<>>
  /\ passes = 0

\* One call of render: the nodes not yet drawn are its enter selection, the
\* others its update selection, each bound to its new data.
RenderPass(data) ==
  /\ passes < MaxPasses
  /\ Len(scheduled) < MaxScheduled
  /\ LET r == render(dom, scheduled, data)
     IN  dom' = r.dom /\ scheduled' = r.scheduled
  /\ input' = [id \in NodeIds |-> IF id \in DOMAIN data THEN Some(data[id]) ELSE input[id]]
  /\ pass' = [enter |-> {id \in DOMAIN data : dom[id] = None},
              update |-> {id \in DOMAIN data : dom[id] # None},
              repeat |-> \A id \in DOMAIN data : input[id] = Some(data[id])]
  /\ passes' = passes + 1
  /\ UNCHANGED <<configVars, pc, indi, fam, details, size, offsetVars>>

Render == \E data \in RenderPassData : RenderPass(data)

NextRender == Render

SpecRender == InitRender /\ [][NextRender]_vars

(***************************************************************************)
(* Render passes with the transitions they schedule.  Time advances in     *)
(* steps of 100 ms; a scheduled transition starts once it is               *)
(* ANIMATION_DELAY_MS old and ends ANIMATION_DURATION_MS later.  When a    *)
(* transition starts on an element it takes the place of the older ones on *)
(* that element (d3 interrupts the running one and cancels those pending). *)
(***************************************************************************)
AnimNodes ==
  {n \in RenderNodes :
     /\ n.indi # None
     /\ (n.spouse = None) <=> (n.family = None)
     /\ n.family # None => n.family[1].id = "F1"
     /\ n.spouse = None => n.indi[1].width = 134}

AnimPassData == {("n1" :> a) : a \in AnimNodes}

InitAnim ==
  /\ options \in {o \in OptionSets : PlainOptions(o)}
  /\ charWidth \in {c \in CharWidths : c.name = 7 /\ c.details = 6}
  /\ pc = "idle"
  /\ indi = NoIndi /\ fam = NoFam /\ details = <<>> /\ size = None
  /\ node = None /\ offsetIndis = <<>> /\ famTransform = None
  /\ dom = [id \in NodeIds |-> None]
  /\ input = [id \in NodeIds |-> None]
  /\ pass = [enter |-> {}, update |-> {}, repeat |-> FALSE]
  /\ scheduled = <<>>
  /\ passes = 0

AnimRender == \E data \in AnimPassData : RenderPass(data)

CanStart(i) ==
  /\ ~scheduled[i].started
  /\ scheduled[i].age >= ANIMATION_DELAY_MS
  /\ \A j \in 1..(i - 1) : scheduled[j].started

CanEnd(i) ==
  /\ scheduled[i].started
  /\ scheduled[i].age >= ANIMATION_DELAY_MS + ANIMATION_DURATION_MS

\* 100 ms pass with no timer due.
Tick ==
  /\ scheduled # <<>>
  /\ \A i \in 1..Len(scheduled) : ~CanStart(i) /\ ~CanEnd(i)
  /\ scheduled' = [i \in 1..Len(scheduled) |->
                     [scheduled[i] EXCEPT !.age = @ + 100]]
  /\ UNCHANGED <<configVars, pc, indi, fam, details, size, offsetVars,
                 dom, input, pass, passes>>

SamePath(t, u) ==
  t.node = u.node /\ t.group = u.group /\ t.key = u.key /\ t.cls = u.cls

\* A scheduled transition starts: on each of its elements the older
\* transitions are interrupted.
StartTransition ==
  \E i \in 1..Len(scheduled) :
    /\ CanStart(i)
    /\ scheduled' =
         [j \in 1..Len(scheduled) |->
            IF j = i THEN [scheduled[j] EXCEPT !.started = TRUE]
            ELSE IF j < i
              THEN [scheduled[j] EXCEPT !.targets =
                      {t \in @ : \A u \in scheduled[i].targets : ~SamePath(t, u)}]
              ELSE scheduled[j]]
    /\ UNCHANGED <<configVars, pc, indi, fam, details, size, offsetVars,
                   dom, input, pass, passes>>

\* A transition ends: its elements have reached their target attributes.
EndTransition ==
  \E i \in 1..Len(scheduled) :
    /\ CanEnd(i)
    /\ dom' = applyTargets(dom, scheduled[i].targets)
    /\ scheduled' = SubSeq(scheduled, 1, i - 1)
                    \o SubSeq(scheduled, i + 1, Len(scheduled))
    /\ UNCHANGED <<configVars, pc, indi, fam, details, size, offsetVars,
                   input, pass, passes>>

NextAnim == AnimRender \/ Tick \/ StartTransition \/ EndTransition

\* Timers fire: time passes, and a due transition starts and ends.
SpecAnim ==
  /\ InitAnim /\ [][NextAnim]_vars
  /\ WF_vars(Tick) /\ WF_vars(StartTransition) /\ WF_vars(EndTransition)

(***************************************************************************)
(* Properties of the renderer.                                             *)
(***************************************************************************)
Child(g, cls) ==
  g.children[CHOOSE c \in 1..Len(g.children) :
               /\ g.children[c].cls = cls
               /\ \A b \in 1..(c - 1) : g.children[b].cls # cls]
GroupOf(groups, id) == groups[CHOOSE k \in 1..Len(groups) : groups[k].key = id]

\* The rectangles that carry the size of a box.
BoxClasses == {"background", "clipPath", "border", "rect"}

\* Group h is group g with at most its transform and the width and height of
\* its box rectangles changed: the same elements, texts, positions, image and
\* hyperlink and click wiring.
SameButBox(g, h) ==
  /\ h.key = g.key /\ h.href = g.href /\ h.click = g.click
  /\ Len(h.children) = Len(g.children)
  /\ \A c \in 1..Len(g.children) :
       IF g.children[c].cls \in BoxClasses
         THEN [h.children[c] EXCEPT !.w = None, !.h = None]
                = [g.children[c] EXCEPT !.w = None, !.h = None]
         ELSE h.children[c] = g.children[c]

\* C7: a pass that updates a node keeps the group of every person and family
\* already drawn under it: no element of it is created or destroyed, its
\* texts, image and wiring stay as they are, and only box widths, box heights
\* and transforms are set again; a node rendered again with the same data
\* keeps all its elements and attribute values.
C7_UpdateInPlace ==
  [][passes' = passes + 1 =>
       \A id \in pass'.update :
         LET old == dom[id][1]
             new == dom'[id][1]
         IN  /\ Len(new.persons) >= Len(old.persons)
             /\ \A k \in 1..Len(old.persons) : SameButBox(old.persons[k], new.persons[k])
             /\ \A k \in (Len(old.persons) + 1)..Len(new.persons) :
                  ~HasGroup(old.persons, new.persons[k].key)
             /\ Len(new.families) = Len(old.families)
             /\ \A k \in 1..Len(old.families) :
                  SameButBox(old.families[k], new.families[k])
             /\ input'[id] = input[id] => dom'[id] = dom[id]]_vars

\* A person drawn at one size and updated to another: the box has the new
\* width, the first name is still centered for the old one.
C7_Witness ==
  /\ "n1" \in pass.update /\ ~pass.repeat
  /\ input["n1"][1].indi = Some([id |-> "I1", width |-> 170, height |-> 104])
  /\ HasGroup(dom["n1"][1].persons, "I1")
  /\ LET g == GroupOf(dom["n1"][1].persons, "I1")
     IN  /\ Child(g, "background").w = Some(170)
         /\ Child(g, "name").x = Some((134 - IMAGE_WIDTH) \div 2)

PersonIds(n) ==
  (IF n.indi # None THEN {n.indi[1].id} ELSE {})
  \cup (IF n.spouse # None THEN {n.spouse[1].id} ELSE {})

\* C8: after every pass the elements under a node are those of its latest
\* data: a person group for exactly the node's individual and spouse, one
\* group per id, and a family group iff the node has a family, for that family.
C8_ExactlyLatestInput ==
  \A id \in NodeIds :
    (dom # <<>> /\ dom[id] # None) =>
      LET el == dom[id][1]
          n == input[id][1]
      IN  /\ {el.persons[k].key : k \in 1..Len(el.persons)} = PersonIds(n)
          /\ Len(el.persons) = Cardinality(PersonIds(n))
          /\ (el.families # <<>>) <=> (n.family # None)
          /\ el.families # <<>> =>
               (Len(el.families) = 1 /\ el.families[1].key = n.family[1].id)

\* The groups bound by the latest data of node id have the transform and the
\* box size computed from that data.
AttrsOfInput(id) ==
  LET el == dom[id][1]
      n == input[id][1]
      recs == offsetIndiData(n)
  IN  /\ \A k \in 1..Len(recs) :
           /\ HasGroup(el.persons, recs[k].indi.id)
           /\ LET g == GroupOf(el.persons, recs[k].indi.id)
              IN  /\ g.transform = Some(<<recs[k].xOffset, recs[k].yOffset>>)
                  /\ \A cls \in {"background", "border"} :
                       /\ Child(g, cls).w = Some(recs[k].indi.width)
                       /\ Child(g, cls).h = Some(recs[k].indi.height)
      /\ (n.family # None /\ el.families # <<>>) =>
           el.families[1].transform = Some(getFamTransform(n))

Settled == \A id \in NodeIds : (dom # <<>> /\ dom[id] # None) => AttrsOfInput(id)

\* The attributes set through transition(), by element.
Animated(d) ==
  UNION {
    {<<id, "indi", d[id][1].persons[k].key, "", d[id][1].persons[k].transform>> :
       k \in 1..Len(d[id][1].persons)}
    \cup
    {<<id, "indi", d[id][1].persons[k].key, cls,
       <<Child(d[id][1].persons[k], cls).w, Child(d[id][1].persons[k], cls).h>> >> :
       k \in 1..Len(d[id][1].persons), cls \in {"background", "border"}}
    \cup
    {<<id, "family", "", "", d[id][1].families[k].transform>> :
       k \in 1..Len(d[id][1].families)}
    : id \in {i \in NodeIds : d[i] # None}}

Unset(a) == a[5] = None \/ a[5] = <<None, None>>

\* Attribute a is the target of a transition that has run its time.
Reached(a) ==
  \E i \in 1..Len(scheduled) :
    /\ CanEnd(i)
    /\ \E t \in scheduled[i].targets :
         /\ <<t.node, t.group, t.key, t.cls>> = <<a[1], a[2], a[3], a[4]>>
         /\ a[5] = (IF t.cls = "" THEN Some(t.value)
                    ELSE <<Some(t.value[1]), Some(t.value[2])>>)

\* C9: without animate, a pass leaves no transition pending and every group
\* it bound has that pass's transform and box size when it returns.  With
\* animate, a pass returns with a transition scheduled and not begun, these
\* attributes change only when a transition that has waited the delay and
\* run the duration ends, and once the transitions have ended the attributes
\* are those of the latest pass, which they eventually are.
C9_Transitions ==
  /\ [](~options.animate => scheduled = <<>>)
  /\ [](scheduled = <<>> => Settled)
  /\ [][options.animate =>
          /\ passes' = passes + 1 =>
               /\ Len(scheduled') = Len(scheduled) + 1
               /\ scheduled'[Len(scheduled')].age = 0
               /\ ~scheduled'[Len(scheduled')].started
          /\ \A a \in Animated(dom') :
               a \in Animated(dom) \/ Unset(a) \/ Reached(a)]_vars
  /\ [](scheduled # <<>> => <>(scheduled = <<>>))

\* A later pass's transition has started and taken over every element of the
\* earlier pass's transition.
C9_Witness ==
  /\ options.animate /\ passes = 2
  /\ Len(scheduled) = 2 /\ scheduled[2].started /\ scheduled[1].targets = {}

\* C10: after every pass the box rectangle of each drawn family has the
\* width and height the family has in the node's latest data.
C10_FamilyBoxSized ==
  \A id \in NodeIds :
    (dom # <<>> /\ dom[id] # None) =>
      LET el == dom[id][1]
          n == input[id][1]
      IN  (n.family # None /\ el.families # <<>>
           /\ el.families[1].key = n.family[1].id)
            => /\ Child(el.families[1], "rect").w = Some(n.family[1].width)
               /\ Child(el.families[1], "rect").h = Some(n.family[1].height)

====
